---- MODULE Spec2Model ----
(***************************************************************************)
(* show-finder: the per-venue SQLite event store (database.py, load_db.py), *)
(* the Resident Advisor scraper that feeds it (ra_club_scraper.py) and the *)
(* venue tracker with its seen-events file (v0/venue_tracker.py).          *)
(*                                                                         *)
(* Text is modelled as a sequence of one-character strings, so that the    *)
(* character-level functions (sanitize_table_name, the '|'-joined identity *)
(* key) are computed the way the code computes them.                       *)
(***************************************************************************)
EXTENDS Integers, Sequences, FiniteSets, TLC

VARIABLES
    venue_names,   \* sanitize_table_name: the two venue names under comparison
    table_names,   \* sanitize_table_name: the derived names, <<>> before the call
    events,        \* Event.event_id: the two Event objects under comparison
    event_ids,     \* Event.event_id: their identities, <<>> before the call
    db,            \* the SQLite file: table name -> rows in rowid order
    clock,         \* the wall clock: index into ClockReadings of the last reading
    call,          \* the last call of save_events or run of load_db: arguments and outcome
    saved,         \* history: table name -> event_id values committed so far
    csv_file,      \* the CSV file ra_club_scraper.py writes and load_db.py reads
    pc,            \* venue_tracker.main: the statement it is at
    seen_ids,      \* venue_tracker.main: the local seen_ids
    all_events,    \* venue_tracker.main: the local all_events
    new_events,    \* venue_tracker.main: the local new_events
    scraper_index, \* venue_tracker.main: position of the loop over scrapers
    event_index,   \* venue_tracker.main: position of the loop over all_events
    seen_file,     \* seen_events.json
    output_file,   \* new_events.txt: the blocks appended so far
    runs,          \* number of runs of venue_tracker.py started
    loaded_ids,    \* history: the set load_seen_events returned in this run
    prev_run,      \* history: how the previous run ended and what it collected
    printed,       \* venue_tracker.main: what it printed for each scraper of this run
    fetch_call,    \* fetch_all_club_events: the responses of a call and the DataFrame returned
    parse_call     \* parse_events: the response of a call and what it returned

sanitizevars == <<venue_names, table_names>>
idvars == <<events, event_ids>>
dbvars == <<db, clock, call, saved>>
trackervars ==
    <<pc, seen_ids, all_events, new_events, scraper_index, event_index,
      seen_file, output_file, runs, loaded_ids, prev_run, printed>>
scrapercallvars == <<fetch_call, parse_call>>
vars == <<sanitizevars, idvars, dbvars, csv_file, scrapercallvars, trackervars>>

(***************************************************************************)
(* Bounds                                                                  *)
(***************************************************************************)
MaxNameLen == 3
MaxFieldLen == 1
MaxBatch == 2
MaxCsvRows == 1

(***************************************************************************)
(* Text helpers                                                            *)
(***************************************************************************)
RECURSIVE StringsUpTo(_, _)
StringsUpTo(chars, n) ==
    IF n = 0 THEN {<<>>}
    ELSE LET shorter == StringsUpTo(chars, n - 1)
         IN  shorter \cup {Append(s, c) : s \in shorter, c \in chars}

\* the characters venue names are drawn from: a lowercase letter, an
\* uppercase letter, a digit, the underscore and one more punctuation mark
NameChars == {"a", "A", "0", "_", " "}

\* the class [a-z0-9] of the regular expression
LowerAlnum ==
    {"a", "b", "c", "d", "e", "f", "g", "h", "i", "j", "k", "l", "m",
     "n", "o", "p", "q", "r", "s", "t", "u", "v", "w", "x", "y", "z",
     "0", "1", "2", "3", "4", "5", "6", "7", "8", "9"}

\* str.lower() on one character
LowerChar(c) ==
    CASE c = "A" -> "a"
      [] c = "N" -> "n"
      [] c = "P" -> "p"
      [] c = "R" -> "r"
      [] OTHER -> c

\* str.lower()
Lower(s) == [i \in 1..Len(s) |-> LowerChar(s[i])]

\* re.sub(r'[^a-z0-9]+', '_', s): every maximal run of characters outside
\* [a-z0-9] becomes one underscore
RECURSIVE ReSubNonAlnum(_)
ReSubNonAlnum(s) ==
    IF s = <<>> THEN <<>>
    ELSE IF Head(s) \in LowerAlnum THEN <<Head(s)>> \o ReSubNonAlnum(Tail(s))
    ELSE IF Len(s) > 1 /\ s[2] \notin LowerAlnum THEN ReSubNonAlnum(Tail(s))
    ELSE <<"_">> \o ReSubNonAlnum(Tail(s))

RECURSIVE LStrip(_, _)
LStrip(s, c) == IF s # <<>> /\ Head(s) = c THEN LStrip(Tail(s), c) ELSE s

RECURSIVE RStrip(_, _)
RStrip(s, c) ==
    IF s # <<>> /\ s[Len(s)] = c THEN RStrip(SubSeq(s, 1, Len(s) - 1), c) ELSE s

\* str.strip(c)
Strip(s, c) == RStrip(LStrip(s, c), c)

(***************************************************************************)
(* database.py: sanitize_table_name                                        *)
(***************************************************************************)
EventsPrefix == <<"e", "v", "e", "n", "t", "s", "_">>

\* mutant: the trailing strip('_') is left out
NormalizeNameNoStrip(venue_name) == ReSubNonAlnum(Lower(venue_name))

\* mutant: the name is not lowercased before the substitution
NormalizeNameNoLower(venue_name) == Strip(ReSubNonAlnum(venue_name), "_")

\* lines 13-17: lowercase, collapse, trim
NormalizeName(venue_name) == Strip(ReSubNonAlnum(Lower(venue_name)), "_")

sanitize_table_name(venue_name) == EventsPrefix \o NormalizeName(venue_name)

(***************************************************************************)
(* Specification of sanitize_table_name over all short venue names         *)
(***************************************************************************)
VenueNames == StringsUpTo(NameChars, MaxNameLen)

\* Python's None; text that is never read character by character (urls,
\* times, cell values) is an atom, written as a TLA+ string
None == "None"

SanitizeIdle == venue_names = <<>> /\ table_names = <<>>
EventIdIdle == events = <<>> /\ event_ids = <<>>
NoCall ==
    [op |-> "none", venue_name |-> None, pd_events |-> <<>>, now |-> None,
     fail_at |-> 0, outcome |-> "none", rows_before |-> 0]
DbIdle == db = <<>> /\ clock = 0 /\ call = NoCall /\ saved = <<>>
NoFile == [exists |-> FALSE, columns |-> {}, rows |-> <<>>]
FileIdle == csv_file = NoFile
NoFetchCall == [state |-> "none"]
NoParseCall == [state |-> "none"]
ScraperCallsIdle ==
    /\ fetch_call = NoFetchCall
    /\ parse_call = NoParseCall
NoSeenFile == [exists |-> FALSE, ids |-> {}]
NoPrevRun == [completed |-> FALSE, all_events |-> <<>>]
TrackerIdle ==
    /\ pc = "none"
    /\ seen_ids = {}
    /\ all_events = <<>>
    /\ new_events = <<>>
    /\ scraper_index = 0
    /\ event_index = 0
    /\ seen_file = NoSeenFile
    /\ output_file = <<>>
    /\ runs = 0
    /\ loaded_ids = {}
    /\ prev_run = NoPrevRun
    /\ printed = <<>>

InitSanitize ==
    /\ venue_names \in VenueNames \X VenueNames
    /\ table_names = <<>>
    /\ EventIdIdle
    /\ DbIdle
    /\ FileIdle
    /\ ScraperCallsIdle
    /\ TrackerIdle

\* derive the table name of both venue names, and of the first derived name
SanitizeNames ==
    /\ table_names = <<>>
    /\ table_names' =
         <<sanitize_table_name(venue_names[1]),
           sanitize_table_name(venue_names[2]),
           sanitize_table_name(sanitize_table_name(venue_names[1]))>>
    /\ UNCHANGED <<venue_names, idvars, dbvars, csv_file, scrapercallvars, trackervars>>

NextSanitize == SanitizeNames

SpecSanitize == InitSanitize /\ [][NextSanitize]_vars

\* the words of a name: its maximal runs of letters and digits, case folded.
\* Two names differ only in letter case, in their separator runs and in
\* leading or trailing punctuation exactly when they have the same words.
RECURSIVE SplitWords(_, _, _)
SplitWords(s, cur, acc) ==
    LET closed == IF cur = <<>> THEN acc ELSE Append(acc, cur)
    IN  IF s = <<>> THEN closed
        ELSE IF LowerChar(Head(s)) \in LowerAlnum
             THEN SplitWords(Tail(s), Append(cur, LowerChar(Head(s))), acc)
             ELSE SplitWords(Tail(s), <<>>, closed)

Words(s) == SplitWords(s, <<>>, <<>>)

IsPrefixOf(p, s) == Len(p) <= Len(s) /\ SubSeq(s, 1, Len(p)) = p

\* 'events_' followed by a string over [a-z0-9_] without a doubled, a
\* leading or a trailing underscore
WellFormedTableName(t) ==
    /\ IsPrefixOf(EventsPrefix, t)
    /\ LET part == SubSeq(t, Len(EventsPrefix) + 1, Len(t))
       IN  /\ \A i \in 1..Len(part) : part[i] \in LowerAlnum \cup {"_"}
           /\ \A i \in 1..(Len(part) - 1) : ~(part[i] = "_" /\ part[i + 1] = "_")
           /\ part # <<>> => part[1] # "_" /\ part[Len(part)] # "_"

\* C4 as stated: sanitize_table_name(sanitize_table_name(n)) equals
\* sanitize_table_name(n) for every venue name n.
C4_IdempotentAsClaimed ==
    table_names # <<>> => table_names[3] = table_names[1]

\* C4 amended: a second application adds a second 'events_' prefix in front
\* of the derived name (whose trailing underscore is trimmed when the name
\* part is empty), so the result differs from the first; the normalisation
\* without the prefix (lowercase, collapse, trim) is idempotent.
C4_SecondPrefix ==
    table_names # <<>> =>
        /\ table_names[3] = EventsPrefix \o Strip(table_names[1], "_")
        /\ table_names[3] # table_names[1]
        /\ NormalizeName(NormalizeName(venue_names[1])) = NormalizeName(venue_names[1])

\* C4 witness: a name with a trailing separator and an uppercase letter has
\* been derived twice
C4_Witness ==
    /\ table_names # <<>>
    /\ venue_names[1] = <<"A", "0", " ">>
    /\ table_names[3] = EventsPrefix \o EventsPrefix \o <<"a", "0">>

NaN == "NaN"
SqlNull == "NULL"

\* the venue names the store is used with, spelled out for sanitize_table_name
Chars(venue_name) ==
    CASE venue_name = "Nowadays" -> <<"N", "o", "w", "a", "d", "a", "y", "s">>
      [] venue_name = "Public Records" ->
           <<"P", "u", "b", "l", "i", "c", " ", "R", "e", "c", "o", "r", "d", "s">>
      [] venue_name = "unknown_venue" ->
           <<"u", "n", "k", "n", "o", "w", "n", "_", "v", "e", "n", "u", "e">>

\* datetime.now().isoformat() at successive calls: the readings of the clock
ClockReadings == <<"2026-01-01T10:00:00", "2026-01-02T10:00:00">>

\* sqlite3 parameter binding: None and a float NaN are stored as NULL
Bind(v) == IF v \in {None, NaN} THEN SqlNull ELSE v

\* lines 64-68: the columns of a venue's table
Columns ==
    {"event_id", "title", "date", "start_time", "end_time", "venue",
     "venue_address", "performers", "description", "url", "flyer_url", "updated_at"}

\* dict.get(key, default)
Get(dict, key, default) == IF key \in DOMAIN dict THEN dict[key] ELSE default

\* line 78: [row.get(col) for col in columns], as bound by executemany; a
\* column the DataFrame does not have is None
Values(row) == [c \in Columns |-> Bind(Get(row, c, None))]

\* lines 37-53: CREATE TABLE IF NOT EXISTS, committed at once (DDL runs
\* outside the implicit transaction of the sqlite3 module)
CreateTableIfNotExists(database, table_name) ==
    IF table_name \in DOMAIN database THEN database
    ELSE (table_name :> <<>>) @@ database

\* mutant: INSERT OR IGNORE, the stored row wins
InsertOrIgnore(rows, v) ==
    IF \E i \in 1..Len(rows) : rows[i].event_id = v.event_id /\ v.event_id # SqlNull
    THEN rows
    ELSE Append(rows, v)

\* line 73: INSERT OR REPLACE on a table whose primary key is event_id TEXT.
\* A row with the same key is deleted and the new row added; NULL keys never
\* conflict (SQLite allows NULL in a non-integer primary key).
InsertOrReplace(rows, v) ==
    IF v.event_id = SqlNull THEN Append(rows, v)
    ELSE Append(SelectSeq(rows, LAMBDA r : r.event_id # v.event_id), v)

\* line 80: executemany over the first n parameter rows
RECURSIVE ExecuteMany(_, _, _)
ExecuteMany(rows, values, n) ==
    IF n = 0 THEN rows
    ELSE InsertOrReplace(ExecuteMany(rows, values, n - 1), values[n])

\* mutant: the connection runs in autocommit mode, every written row stays
CloseKeepsWrites(committed, written, did_commit) == written

\* lines 81-90: commit() makes the written rows durable; close() without a
\* commit rolls the open transaction back
CloseConnection(committed, written, did_commit) ==
    IF did_commit THEN written ELSE committed

\* DataFrame.empty
IsEmpty(pd_events) == pd_events = <<>>

\* mutant: the early return is missing
AlwaysSomethingToSave(pd_events) == FALSE

\* lines 26-28: nothing to save
NothingToSave(pd_events) == IsEmpty(pd_events)

\* line 57: pd_events['updated_at'] = datetime.now().isoformat() sets the
\* column in every row, adding it when the DataFrame has none
Stamp(row, now) ==
    [c \in DOMAIN row \cup {"updated_at"} |-> IF c = "updated_at" THEN now ELSE row[c]]

\* save_events (lines 21-90). now is the clock reading of line 57; fail_at = 0
\* when every write succeeds, k when the write of the k-th row raises (the
\* rows before it have been written in the open transaction by then).
save_events(database, pd_events, venue_name, now, fail_at) ==
    IF NothingToSave(pd_events)
    THEN [db |-> database, outcome |-> "returned", table_name |-> <<>>]
    ELSE IF venue_name \in {None, NaN}
    THEN \* line 30: a float has no lower(); raised before the connection is opened
         [db |-> database, outcome |-> "raised", table_name |-> <<>>]
    ELSE
      LET table_name == sanitize_table_name(Chars(venue_name))
          created == CreateTableIfNotExists(database, table_name)
          values == [i \in 1..Len(pd_events) |-> Values(Stamp(pd_events[i], now))]
          n == IF fail_at = 0 THEN Len(values) ELSE fail_at - 1
          written == ExecuteMany(created[table_name], values, n)
          closed == CloseConnection(created[table_name], written, fail_at = 0)
      IN  [db |-> [created EXCEPT ![table_name] = closed],
           outcome |-> IF fail_at = 0 THEN "saved" ELSE "raised",
           table_name |-> table_name]

\* the event_id values a committed batch stored
BatchIds(pd_events) == {Bind(pd_events[i].event_id) : i \in 1..Len(pd_events)}

Remember(history, r, pd_events) ==
    IF r.outcome \notin {"saved", "done"} THEN history
    ELSE (r.table_name :>
            ((IF r.table_name \in DOMAIN history THEN history[r.table_name] ELSE {})
               \cup BatchIds(pd_events))) @@ history

\* the number of rows of a venue's table (0 when there is no such table)
RowCount(database, venue_name) ==
    IF venue_name \in {None, NaN} THEN 0
    ELSE LET t == sanitize_table_name(Chars(venue_name))
         IN  IF t \in DOMAIN database THEN Len(database[t]) ELSE 0

(***************************************************************************)
(* load_db.py: main                                                        *)
(***************************************************************************)
\* pd.read_csv on one cell: an empty field is read as NaN
ReadCell(text) == IF text = "" THEN NaN ELSE text

\* pd.read_csv (line 29): the rows of the file, over the columns of its header
ReadCsv(csv) ==
    [i \in 1..Len(csv.rows) |->
        [c \in csv.columns |-> ReadCell(csv.rows[i][c])]]

\* load_db.main (lines 23-50): the outcome of the run and the database after it
load_db(database, csv, now, fail_at) ==
    IF ~csv.exists
    THEN \* lines 23-25
         [db |-> database, outcome |-> "exit_1", table_name |-> <<>>,
          pd_events |-> <<>>, venue_name |-> None]
    ELSE
      LET df == ReadCsv(csv)
          \* lines 36-42
          venue_name == IF "venue" \in csv.columns THEN df[1].venue ELSE "unknown_venue"
          r == save_events(database, df, venue_name, now, fail_at)
      IN  IF IsEmpty(df)
          THEN [db |-> database, outcome |-> "nothing_to_load", table_name |-> <<>>,
                pd_events |-> df, venue_name |-> None]
          ELSE [db |-> r.db,
                outcome |-> IF r.outcome = "raised" THEN "exit_1" ELSE "done",
                table_name |-> r.table_name,
                pd_events |-> df, venue_name |-> venue_name]

(***************************************************************************)
(* Specification of the store: calls of save_events and runs of load_db    *)
(***************************************************************************)
\* the venue whose scraped events a caller saves directly; CSV files are
\* loaded for this venue and for "Public Records"
DbVenues == {"Nowadays"}
SourceStamp == "2020-05-05T00:00:00"

RECURSIVE SeqsUpTo(_, _)
SeqsUpTo(S, n) ==
    IF n = 0 THEN {<<>>}
    ELSE LET shorter == SeqsUpTo(S, n - 1)
         IN  shorter \cup {Append(s, x) : s \in shorter, x \in S}

\* the rows of a DataFrame handed to save_events for a venue; its
\* updated_at column carries a value of the source
FrameRows(venue_name) ==
    [event_id : {None, "e1", "e2"}, title : {None, "t1"},
     venue : {venue_name}, updated_at : {SourceStamp}]

\* DataFrames of at most MaxBatch rows
DataFrames(venue_name) == SeqsUpTo(FrameRows(venue_name), MaxBatch)

\* the lines of a CSV file with a venue column, and of one without; an
\* empty field is ""
CsvRows ==
    [event_id : {"", "e1", "e2"}, title : {"t1"},
     venue : {"", "Nowadays", "Public Records"}]
CsvRowsNoVenue == [event_id : {"", "e1", "e2"}, title : {"t1"}]

\* CSV files of at most MaxCsvRows lines under the header, and a missing file
CsvFiles ==
    {NoFile}
      \cup {[exists |-> TRUE, columns |-> {"event_id", "title", "venue"}, rows |-> rows] :
               rows \in SeqsUpTo(CsvRows, MaxCsvRows)}
      \cup {[exists |-> TRUE, columns |-> {"event_id", "title"}, rows |-> rows] :
               rows \in SeqsUpTo(CsvRowsNoVenue, MaxCsvRows)}

\* where a batch may fail: nowhere, or at its last row
FailPoints(n) == {0, n}

InitDb ==
    /\ DbIdle
    /\ SanitizeIdle
    /\ EventIdIdle
    /\ FileIdle
    /\ ScraperCallsIdle
    /\ TrackerIdle

\* a caller hands a DataFrame to save_events; the clock has moved on since
\* the call before
SaveEventsCall ==
    \E venue_name \in DbVenues :
      \E pd_events \in DataFrames(venue_name) :
        \E fail_at \in FailPoints(Len(pd_events)) :
          /\ clock < Len(ClockReadings)
          /\ LET now == ClockReadings[clock + 1]
                 r == save_events(db, pd_events, venue_name, now, fail_at)
             IN  /\ db' = r.db
                 /\ call' = [op |-> "save_events", venue_name |-> venue_name,
                             pd_events |-> pd_events, now |-> now,
                             fail_at |-> fail_at, outcome |-> r.outcome,
                             rows_before |-> RowCount(db, venue_name)]
                 /\ saved' = Remember(saved, r, pd_events)
          /\ clock' = clock + 1
          /\ UNCHANGED <<sanitizevars, idvars, csv_file, scrapercallvars, trackervars>>

\* load_db.py is run on a CSV file
LoadDbMain(csv) ==
    \E fail_at \in FailPoints(Len(csv.rows)) :
      /\ clock < Len(ClockReadings)
      /\ LET now == ClockReadings[clock + 1]
             r == load_db(db, csv, now, fail_at)
         IN  /\ db' = r.db
             /\ call' = [op |-> "load_db", venue_name |-> r.venue_name,
                         pd_events |-> r.pd_events, now |-> now,
                         fail_at |-> fail_at, outcome |-> r.outcome,
                         rows_before |-> RowCount(db, r.venue_name)]
             /\ saved' = Remember(saved, r, r.pd_events)
      /\ clock' = clock + 1
      /\ UNCHANGED <<sanitizevars, idvars, csv_file, scrapercallvars, trackervars>>

LoadDbOnAnyCsv == \E csv \in CsvFiles : LoadDbMain(csv)

Next == SaveEventsCall \/ LoadDbOnAnyCsv

Spec == InitDb /\ [][Next]_vars

\* the rows of a table with a given key
RowsWithId(rows, id) == {i \in 1..Len(rows) : rows[i].event_id = id}

\* the table the last call wrote to
CallTable == sanitize_table_name(Chars(call.venue_name))

Committed == call.outcome \in {"saved", "done"}
Failed == call.outcome \in {"raised", "exit_1"}

\* C1: after any sequence of successful save_events calls a venue's table
\* holds exactly one row for every event_id that was ever saved, and no
\* other row: a re-saved event adds no second row, a saved one never
\* disappears.
C1_OneRowPerSavedEvent ==
    \A t \in DOMAIN saved :
        /\ t \in DOMAIN db
        /\ \A id \in saved[t] : Cardinality(RowsWithId(db[t], id)) = 1
        /\ Len(db[t]) = Cardinality(saved[t])

\* what the code does meet: one row for every event_id that is not NULL
OneRowPerPresentId ==
    \A t \in DOMAIN saved :
        /\ t \in DOMAIN db
        /\ \A id \in saved[t] \ {SqlNull} : Cardinality(RowsWithId(db[t], id)) = 1
        /\ \A i \in 1..Len(db[t]) : db[t][i].event_id \in saved[t]

\* the last row of the batch with the key of row i
LastWithId(pd_events, i) ==
    CHOOSE j \in i..Len(pd_events) :
        /\ Bind(pd_events[j].event_id) = Bind(pd_events[i].event_id)
        /\ \A k \in (j + 1)..Len(pd_events) :
              Bind(pd_events[k].event_id) # Bind(pd_events[i].event_id)

\* the row the store holds for a written event: its values in every column,
\* missing ones as NULL, and the clock reading of the call as updated_at
StoredRow(row, now) ==
    [c \in Columns |->
        IF c = "updated_at" THEN now
        ELSE IF c \notin DOMAIN row THEN SqlNull
        ELSE IF row[c] \in {None, NaN} THEN SqlNull
        ELSE row[c]]

\* C2: after a successful save_events call, for every event_id of the batch
\* the stored row is the most recently written event with that id in every
\* column, stamped with the clock value read during the call, whatever
\* updated_at the input carried: that row is in the table, and no row with
\* that event_id holds anything else (rows without an event_id are never
\* replaced, so for them only the first half can be said).
C2_StoredRowIsLastWritten ==
    Committed =>
        \A i \in 1..Len(call.pd_events) :
            LET id == Bind(call.pd_events[i].event_id)
                expected == StoredRow(call.pd_events[LastWithId(call.pd_events, i)],
                                      call.now)
            IN  /\ \E k \in RowsWithId(db[CallTable], id) : db[CallTable][k] = expected
                /\ id # SqlNull =>
                      \A k \in RowsWithId(db[CallTable], id) : db[CallTable][k] = expected

\* C2 witness: a table that held exactly the row of e1 was given a new row
\* for e1 with a missing title and a source updated_at, and holds it alone
C2_Witness ==
    /\ call.op = "save_events" /\ Committed
    /\ call.rows_before = 1
    /\ call.pd_events =
         <<[event_id |-> "e1", title |-> None, venue |-> call.venue_name,
            updated_at |-> SourceStamp]>>
    /\ Len(db[CallTable]) = 1
    /\ db[CallTable][1].event_id = "e1"
    /\ db[CallTable][1].title = SqlNull
    /\ db[CallTable][1].description = SqlNull
    /\ db[CallTable][1].updated_at = ClockReadings[2]

\* C9: a save_events call in which a write of the batch fails raises,
\* commits none of the batch's rows and leaves every committed row of every
\* table as it was.
C9_FailedBatchStoresNothing ==
    [][call'.fail_at > 0 =>
          /\ call'.outcome \in {"raised", "exit_1"}
          /\ \A t \in DOMAIN db : t \in DOMAIN db' /\ db'[t] = db[t]
          /\ \A t \in DOMAIN db' \ DOMAIN db : db'[t] = <<>>
          /\ saved' = saved]_vars

\* C9 witness: the second write of a batch failed on a table that held a
\* row, and the table still holds that one row
C9_Witness ==
    /\ call.op = "save_events" /\ call.outcome = "raised"
    /\ call.fail_at = 2
    /\ call.rows_before = 1
    /\ Len(db[CallTable]) = 1
    /\ db[CallTable][1].updated_at = ClockReadings[1]
    /\ db[CallTable][1].event_id # Bind(call.pd_events[1].event_id)

\* C10: save_events with an empty event list raises nothing, creates no
\* table and leaves the database as it was (and load_db on a CSV file
\* without rows does not get as far as save_events).
C10_EmptyBatchIsNoOp ==
    [][call'.pd_events = <<>> =>
          /\ db' = db
          /\ saved' = saved
          /\ call'.op = "save_events" => call'.outcome = "returned"
          /\ call'.op = "load_db" => call'.outcome \in {"nothing_to_load", "exit_1"}]_vars

\* C10 witness: save_events returned from an empty list for a venue that
\* has no table, in a database that holds another venue's table
C10_Witness ==
    /\ call.op = "save_events" /\ call.pd_events = <<>>
    /\ call.outcome = "returned"
    /\ DOMAIN db # {}
    /\ CallTable \notin DOMAIN db

(***************************************************************************)
(* v0/venue_tracker.py: Event and Event.event_id                           *)
(***************************************************************************)
\* the dataclass Event (lines 24-30)
Event(venue, title, date, url, time) ==
    [venue |-> venue, title |-> title, date |-> date, url |-> url, time |-> time]

\* f"{self.venue}|{self.title}|{self.date}" (line 34)
IdKey(e) == e.venue \o <<"|">> \o e.title \o <<"|">> \o e.date

\* hashlib.md5(key.encode()).hexdigest(): the digest is taken to be
\* collision-free, so it is a tagged copy of the bytes it was computed from
Md5HexDigest(bytes) == [md5 |-> bytes]

\* an identity that also covers the url
EventIdWithUrl(e) == Md5HexDigest(IdKey(e) \o <<"|", e.url>>)

\* Event.event_id (lines 32-35)
event_id(e) == Md5HexDigest(IdKey(e))

(***************************************************************************)
(* Specification of Event.event_id over all pairs of small events          *)
(***************************************************************************)
\* field text: a letter and the separator character of the key
FieldChars == {"a", "|"}
FieldTexts == StringsUpTo(FieldChars, MaxFieldLen)
Urls == {None, "https://h0l0.nyc/event/1"}
Times == {None, "10:00pm"}

EventObjects ==
    {Event(v, t, d, u, tm) :
        v \in FieldTexts, t \in FieldTexts, d \in FieldTexts, u \in Urls, tm \in Times}

InitEventId ==
    /\ events \in EventObjects \X EventObjects
    /\ event_ids = <<>>
    /\ SanitizeIdle
    /\ DbIdle
    /\ FileIdle
    /\ ScraperCallsIdle
    /\ TrackerIdle

\* call event_id() on both events
CallEventId ==
    /\ event_ids = <<>>
    /\ event_ids' = <<event_id(events[1]), event_id(events[2])>>
    /\ UNCHANGED <<events, sanitizevars, dbvars, csv_file, scrapercallvars, trackervars>>

NextEventId == CallEventId

SpecEventId == InitEventId /\ [][NextEventId]_vars

Triple(e) == <<e.venue, e.title, e.date>>

\* C3: the identity is a pure function of (venue, title, date) that
\* distinguishes triples: equal triples give equal identities whatever url
\* and time are, and triples that differ in any field give different
\* identities, also when a field contains the separator '|'.
C3_IdentityDistinguishesTriples ==
    event_ids # <<>> =>
        (Triple(events[1]) = Triple(events[2]) <=> event_ids[1] = event_ids[2])

\* the half of C3 the code does meet: equal triples give equal identities
EventIdDependsOnTripleOnly ==
    event_ids # <<>> =>
        (Triple(events[1]) = Triple(events[2]) => event_ids[1] = event_ids[2])

(***************************************************************************)
(* ra_club_scraper.py: parse_events, fetch_all_club_events, main           *)
(*                                                                         *)
(* A JSON object is a record that has the keys the response has; a JSON    *)
(* null scalar is None; a list-valued or object-valued key holds           *)
(* [null |-> TRUE, ...] for null.                                          *)
(***************************************************************************)
JsonList(items) == [null |-> FALSE, items |-> items]
JsonNullList == [null |-> TRUE, items |-> <<>>]
JsonPick(blurb) == [null |-> FALSE, blurb |-> blurb]
JsonNullPick == [null |-> TRUE, blurb |-> None]

\* Python truth of a scalar: None and "" are false
Truthy(v) == v \notin {None, ""}

\* ", ".join(names)
RECURSIVE Join(_, _)
Join(names, sep) ==
    IF names = <<>> THEN ""
    ELSE IF Len(names) = 1 THEN names[1]
    ELSE names[1] \o sep \o Join(Tail(names), sep)

\* lines 158-179: the record of one event; an artist is given by its name
\* (None when the artist object has none)
ParseEvent(event, venue_name, venue_address) ==
    LET given == Get(event, "artists", JsonList(<<>>))
        artists == IF given.null THEN <<>> ELSE given.items
        artist_names == Join(SelectSeq(artists, Truthy), ", ")
        pick == Get(event, "pick", JsonNullPick)
        description == IF ~pick.null /\ Truthy(pick.blurb) THEN pick.blurb ELSE ""
        contentUrl == Get(event, "contentUrl", None)
    IN  [event_id |-> Get(event, "id", None),
         title |-> Get(event, "title", None),
         date |-> Get(event, "date", None),
         start_time |-> Get(event, "startTime", None),
         end_time |-> Get(event, "endTime", None),
         venue |-> venue_name,
         venue_address |-> venue_address,
         performers |-> artist_names,
         description |-> description,
         url |-> IF Truthy(contentUrl) THEN "https://ra.co" \o contentUrl ELSE "",
         flyer_url |-> Get(event, "flyerFront", "")]

\* parse_events without its check of the venue
ParseEventsNoVenueCheck(response_data) ==
    IF response_data.data = "null" \/ response_data.venue # "object"
    THEN [raised |-> TRUE, events |-> <<>>]
    ELSE
      LET venue_data == response_data.venue_data
          events_list == Get(venue_data, "events", JsonList(<<>>))
      IN  IF events_list.null
          THEN [raised |-> TRUE, events |-> <<>>]
          ELSE [raised |-> FALSE,
                events |-> [i \in 1..Len(events_list.items) |->
                              ParseEvent(events_list.items[i],
                                         Get(venue_data, "name", ""),
                                         Get(venue_data, "address", ""))]]

\* parse_events (lines 135-181): the list of records, or raised
parse_events(response_data) ==
    IF response_data.data = "null"
    THEN \* line 147: None has no get()
         [raised |-> TRUE, events |-> <<>>]
    ELSE IF response_data.data = "absent" \/ response_data.venue # "object"
    THEN [raised |-> FALSE, events |-> <<>>]
    ELSE
      LET venue_data == response_data.venue_data
          venue_name == Get(venue_data, "name", "")
          venue_address == Get(venue_data, "address", "")
          events_list == Get(venue_data, "events", JsonList(<<>>))
      IN  IF events_list.null
          THEN \* line 157: None is not iterable
               [raised |-> TRUE, events |-> <<>>]
          ELSE [raised |-> FALSE,
                events |-> [i \in 1..Len(events_list.items) |->
                              ParseEvent(events_list.items[i], venue_name, venue_address)]]

\* lines 201-212 and 217-228: one fetch; a failed request, an error status
\* and a parse error are all caught and add nothing
FetchAndParse(response) ==
    IF response.status # "ok" THEN <<>>
    ELSE LET parsed == parse_events(response.json)
         IN  IF parsed.raised THEN <<>> ELSE parsed.events

\* the dates of the source, in increasing order of their text
DateTexts == <<"2026-01-10T00:00:00.000", "2026-02-20T00:00:00.000">>
DateRank(date) ==
    IF \E i \in 1..Len(DateTexts) : DateTexts[i] = date
    THEN CHOOSE i \in 1..Len(DateTexts) : DateTexts[i] = date
    ELSE 0

\* df.sort_values("date", ascending=False): later dates first, missing
\* dates last; the default sort is not stable, so rows with equal dates
\* come in any order
SortedByDateDescending(rows) ==
    LET n == Len(rows)
        perms == {p \in [1..n -> 1..n] : \A i, j \in 1..n : i # j => p[i] # p[j]}
    IN  {[i \in 1..n |-> rows[p[i]]] : p \in
            {q \in perms : \A i, j \in 1..n :
                i < j => DateRank(rows[q[i]].date) >= DateRank(rows[q[j]].date)}}

\* lines 201-212 and 217-228: what is printed for one fetch
FetchReport(response) ==
    IF response.status # "ok" THEN [line |-> "error"]
    ELSE LET parsed == parse_events(response.json)
         IN  IF parsed.raised THEN [line |-> "error"]
             ELSE IF parsed.events = <<>> THEN [line |-> "none_found"]
             ELSE [line |-> "found", count |-> Len(parsed.events)]

\* a fetch_all_club_events that gives up at the first failed fetch
FetchAbortingOnFailure(upcoming, include_past, past) ==
    IF FetchReport(upcoming).line = "error" THEN {<<>>}
    ELSE LET fetched == FetchAndParse(upcoming)
                          \o (IF include_past THEN FetchAndParse(past) ELSE <<>>)
         IN  IF fetched = <<>> THEN {<<>>} ELSE SortedByDateDescending(fetched)

\* fetch_all_club_events (lines 184-237): the DataFrames it may return
fetch_all_club_events(upcoming, include_past, past) ==
    LET fetched == FetchAndParse(upcoming)
                     \o (IF include_past THEN FetchAndParse(past) ELSE <<>>)
    IN  IF fetched = <<>> THEN {<<>>} ELSE SortedByDateDescending(fetched)

\* DataFrame.to_csv on one cell: a missing value is written as an empty field
WriteCell(v) == IF v \in {None, NaN} THEN "" ELSE v

\* df.to_csv(output_path, index=False) (line 288)
ToCsv(df) ==
    [exists |-> TRUE,
     columns |-> DOMAIN df[1],
     rows |-> [i \in 1..Len(df) |-> [c \in DOMAIN df[i] |-> WriteCell(df[i][c])]]]

(***************************************************************************)
(* Specification of the pipeline: the scraper writes the CSV file, load_db *)
(* loads it into the store                                                 *)
(***************************************************************************)
MaxEvents == 1

\* event objects of the source: with or without an id
SourceEvents ==
    {[id |-> "e1", title |-> "Opening", date |-> DateTexts[1],
      artists |-> JsonList(<<"DJ A", "DJ B">>), pick |-> JsonPick("tip"),
      contentUrl |-> "/events/1"],
     [id |-> "e2", title |-> "Closing", date |-> DateTexts[2],
      artists |-> JsonNullList, pick |-> JsonNullPick, contentUrl |-> None],
     [title |-> "Opening", date |-> DateTexts[1],
      artists |-> JsonList(<<"DJ A">>), pick |-> JsonNullPick,
      contentUrl |-> "/events/1"],
     [id |-> None, title |-> "Closing", date |-> DateTexts[2]]}

FoundVenue(events_list) ==
    [data |-> "object", venue |-> "object",
     venue_data |-> [id |-> "105873", name |-> "Nowadays",
                     address |-> "56-06 Cooper Ave", events |-> events_list]]
NoVenueData == [id |-> None]

\* what the endpoint may answer
JsonBodies ==
    {[data |-> "null", venue |-> "absent", venue_data |-> NoVenueData],
     [data |-> "object", venue |-> "null", venue_data |-> NoVenueData],
     FoundVenue(JsonNullList)}
      \cup {FoundVenue(JsonList(es)) : es \in SeqsUpTo(SourceEvents, MaxEvents)}

Responses ==
    {[status |-> "error", json |-> [data |-> "absent", venue |-> "absent",
                                    venue_data |-> NoVenueData]]}
      \cup {[status |-> "ok", json |-> body] : body \in JsonBodies}

InitPipeline ==
    /\ DbIdle
    /\ FileIdle
    /\ ScraperCallsIdle
    /\ TrackerIdle
    /\ SanitizeIdle
    /\ EventIdIdle

\* ra_club_scraper.main (lines 270-290): nothing is written when no event
\* was found
RaScraperMain ==
    \E upcoming \in Responses, include_past \in BOOLEAN, past \in Responses :
      \E df \in fetch_all_club_events(upcoming, include_past, past) :
        /\ include_past \/ past = upcoming
        /\ csv_file' = IF IsEmpty(df) THEN csv_file ELSE ToCsv(df)
        /\ UNCHANGED <<sanitizevars, idvars, dbvars, scrapercallvars, trackervars>>

\* load_db.py is run on the file the scraper wrote
LoadScrapedCsv ==
    /\ LoadDbMain(csv_file)

NextPipeline == RaScraperMain \/ LoadScrapedCsv

SpecPipeline == InitPipeline /\ [][NextPipeline]_vars

\* C8: no row whose event_id is NULL or the empty string is ever stored,
\* also when the source events lack an id or the CSV has empty event_id
\* fields.
C8_NoRowWithoutEventId ==
    \A t \in DOMAIN db :
        \A i \in 1..Len(db[t]) : db[t][i].event_id \notin {SqlNull, ""}

(***************************************************************************)
(* v0/venue_tracker.py: load_seen_events, save_seen_events,                *)
(* write_new_events, main                                                  *)
(***************************************************************************)
\* load_seen_events (lines 40-45)
load_seen_events(file) == IF file.exists THEN file.ids ELSE {}

\* save_seen_events (lines 47-50): the file is overwritten
save_seen_events(seen) == [exists |-> TRUE, ids |-> seen]

\* write_new_events (lines 269-275): what is written for one event
EventLines(event) ==
    <<event.venue, event.title, event.date>>
        \o (IF Truthy(event.url) THEN <<event.url>> ELSE <<>>)

\* write_new_events (lines 260-275): the block appended for the first n
\* events (the header carries the time of writing, which is left out)
WrittenBlock(new, n) == [k \in 1..n |-> EventLines(new[k])]

\* the list of scrapers of main (lines 286-293): one is active
scrapers == <<"H0L0">>

(***************************************************************************)
(* Specification of the venue tracker, run repeatedly                      *)
(***************************************************************************)
MaxCollected == 2
MaxRuns == 2

\* the events a scraper may return: one event with and without its url, and
\* two events whose keys coincide
ScrapedEvents ==
    {Event(<<"a">>, <<"a">>, <<"a">>, None, None),
     Event(<<"a">>, <<"a">>, <<"a">>, "https://h0l0.nyc/event/1", "10:00pm"),
     Event(<<"a">>, <<"|">>, <<>>, None, None),
     Event(<<"a">>, <<>>, <<"|">>, None, None)}

\* a scraper returns the events it found so far, or raises
ScraperResults ==
    {[raised |-> TRUE, events |-> <<>>]}
      \cup {[raised |-> FALSE, events |-> es] : es \in SeqsUpTo(ScrapedEvents, MaxCollected)}

InitTracker ==
    /\ pc = "start"
    /\ seen_ids = {}
    /\ all_events = <<>>
    /\ new_events = <<>>
    /\ scraper_index = 0
    /\ event_index = 0
    /\ seen_file = NoSeenFile
    /\ output_file = <<>>
    /\ runs = 1
    /\ loaded_ids = {}
    /\ prev_run = NoPrevRun
    /\ printed = <<>>
    /\ DbIdle
    /\ FileIdle
    /\ ScraperCallsIdle
    /\ SanitizeIdle
    /\ EventIdIdle

\* main, lines 277-293
LoadSeenEvents ==
    /\ pc = "start"
    /\ seen_ids' = load_seen_events(seen_file)
    /\ loaded_ids' = seen_ids'
    /\ all_events' = <<>>
    /\ scraper_index' = 1
    /\ pc' = "scrape"
    /\ UNCHANGED <<new_events, event_index, seen_file, output_file, runs, prev_run,
                   printed>>
    /\ UNCHANGED <<sanitizevars, idvars, dbvars, csv_file, scrapercallvars>>

\* main, lines 295-306: one turn of the loop over scrapers; after the last
\* one new_events is initialised
RunScraper ==
    /\ pc = "scrape"
    /\ scraper_index <= Len(scrapers)
    /\ \E result \in ScraperResults :
          /\ all_events' = IF result.raised THEN all_events
                           ELSE all_events \o result.events
          /\ printed' = Append(printed,
                               IF result.raised
                               THEN [name |-> scrapers[scraper_index], line |-> "error"]
                               ELSE [name |-> scrapers[scraper_index], line |-> "found",
                                     count |-> Len(result.events)])
    /\ scraper_index' = scraper_index + 1
    /\ IF scraper_index = Len(scrapers)
       THEN pc' = "filter" /\ new_events' = <<>> /\ event_index' = 1
       ELSE UNCHANGED <<pc, new_events, event_index>>
    /\ UNCHANGED <<seen_ids, seen_file, output_file, runs, loaded_ids, prev_run>>
    /\ UNCHANGED <<sanitizevars, idvars, dbvars, csv_file, scrapercallvars>>

\* a set.add that adds nothing
SetAddNothing(set, element) == set

\* set.add (line 311)
SetAdd(set, element) == set \cup {element}

\* main, lines 307-311: one turn of the loop over all_events
FilterEvent ==
    /\ pc = "filter"
    /\ event_index <= Len(all_events)
    /\ LET event == all_events[event_index]
           id == event_id(event)
       IN  IF id \notin seen_ids
           THEN /\ new_events' = Append(new_events, event)
                /\ seen_ids' = SetAdd(seen_ids, id)
           ELSE UNCHANGED <<new_events, seen_ids>>
    /\ event_index' = event_index + 1
    /\ UNCHANGED <<pc, all_events, scraper_index, seen_file, output_file, runs,
                   loaded_ids, prev_run, printed>>
    /\ UNCHANGED <<sanitizevars, idvars, dbvars, csv_file, scrapercallvars>>

\* main, lines 314-318: write_new_events appends its block, or raises when
\* the file cannot be opened or after it wrote some of the events; the
\* exception is not caught in main
WriteResults ==
    /\ pc = "filter"
    /\ event_index > Len(all_events)
    /\ IF new_events # <<>>
       THEN \/ /\ output_file' = Append(output_file, WrittenBlock(new_events, Len(new_events)))
               /\ pc' = "save"
            \/ /\ output_file' = output_file
               /\ pc' = "crashed"
            \/ \E n \in 0..(Len(new_events) - 1) :
                 /\ output_file' = Append(output_file, WrittenBlock(new_events, n))
                 /\ pc' = "crashed"
       ELSE /\ pc' = "save"
            /\ UNCHANGED output_file
    /\ UNCHANGED <<seen_ids, all_events, new_events, scraper_index, event_index,
                   seen_file, runs, loaded_ids, prev_run, printed>>
    /\ UNCHANGED <<sanitizevars, idvars, dbvars, csv_file, scrapercallvars>>

\* main, lines 321-322
SaveSeenEvents ==
    /\ pc = "save"
    /\ seen_file' = save_seen_events(seen_ids)
    /\ pc' = "ended"
    /\ UNCHANGED <<seen_ids, all_events, new_events, scraper_index, event_index,
                   output_file, runs, loaded_ids, prev_run, printed>>
    /\ UNCHANGED <<sanitizevars, idvars, dbvars, csv_file, scrapercallvars>>

\* venue_tracker.py is started again (line 324) once the run before it
\* is over; the files are what it left
StartRun ==
    /\ pc \in {"ended", "crashed"}
    /\ runs < MaxRuns
    /\ runs' = runs + 1
    /\ prev_run' = [completed |-> pc = "ended", all_events |-> all_events]
    /\ pc' = "start"
    /\ seen_ids' = {}
    /\ all_events' = <<>>
    /\ new_events' = <<>>
    /\ scraper_index' = 0
    /\ event_index' = 0
    /\ loaded_ids' = {}
    /\ printed' = <<>>
    /\ UNCHANGED <<seen_file, output_file>>
    /\ UNCHANGED <<sanitizevars, idvars, dbvars, csv_file, scrapercallvars>>

NextTracker ==
    \/ LoadSeenEvents
    \/ RunScraper
    \/ FilterEvent
    \/ WriteResults
    \/ SaveSeenEvents
    \/ StartRun

SpecTracker == InitTracker /\ [][NextTracker]_vars

Ids(es) == {event_id(es[k]) : k \in 1..Len(es)}
Triples(es) == {Triple(es[k]) : k \in 1..Len(es)}
Filtered == pc \in {"save", "ended"} \/ (pc = "filter" /\ event_index > Len(all_events))

\* C6: an event whose identity is in the seen set loaded at the start of a
\* run is never in that run's new events; and when two consecutive
\* completed runs collect events with the same (venue, title, date)
\* triples, the second run has no new events.
C6_SeenEventsAreNotNew ==
    /\ \A k \in 1..Len(new_events) : event_id(new_events[k]) \notin loaded_ids
    /\ (Filtered /\ prev_run.completed
          /\ Triples(all_events) = Triples(prev_run.all_events))
         => new_events = <<>>

\* a second completed run that collected an event of the first run again,
\* with another url, and reported nothing
C6_Witness ==
    /\ pc = "ended"
    /\ prev_run.completed
    /\ Triples(all_events) = Triples(prev_run.all_events)
    /\ \E k \in 1..Len(all_events), j \in 1..Len(prev_run.all_events) :
          /\ Triple(all_events[k]) = Triple(prev_run.all_events[j])
          /\ all_events[k].url # prev_run.all_events[j].url
          /\ event_id(all_events[k]) \in loaded_ids
    /\ new_events = <<>>

\* C7: the seen set of a run contains the set loaded at its start, and on
\* every path on which main is over, the write of the new-events file
\* failing included, seen_events.json holds the loaded set united with the
\* identities of all events collected in the run.
C7_SeenSetPersistedOnEveryPath ==
    /\ pc \notin {"start", "none"} => loaded_ids \subseteq seen_ids
    /\ pc \in {"ended", "crashed"} =>
          /\ seen_file.exists
          /\ seen_file.ids = loaded_ids \cup Ids(all_events)

\* the part of C7 the code meets: the seen set only grows during a run,
\* and a run that reaches its end persisted the loaded set united with the
\* identities of all collected events
SeenSetPersistedWhenMainReturns ==
    /\ pc \notin {"start", "none"} => loaded_ids \subseteq seen_ids
    /\ pc = "ended" =>
          /\ seen_file.exists
          /\ seen_file.ids = loaded_ids \cup Ids(all_events)

(***************************************************************************)
(* Specification of fetch_all_club_events over all pairs of responses      *)
(***************************************************************************)
InitFetch ==
    /\ fetch_call \in
          {[state |-> "called", upcoming |-> upcoming, include_past |-> include_past,
            past |-> past] :
              upcoming \in Responses, include_past \in BOOLEAN, past \in Responses}
    /\ fetch_call.include_past \/ fetch_call.past = fetch_call.upcoming
    /\ parse_call = NoParseCall
    /\ DbIdle
    /\ FileIdle
    /\ TrackerIdle
    /\ SanitizeIdle
    /\ EventIdIdle

\* fetch_all_club_events (lines 184-237), with what it printed for the
\* fetches it made
FetchAllClubEvents ==
    /\ fetch_call.state = "called"
    /\ \E df \in fetch_all_club_events(fetch_call.upcoming, fetch_call.include_past,
                                       fetch_call.past) :
          fetch_call' =
            [state |-> "returned",
             upcoming |-> fetch_call.upcoming,
             include_past |-> fetch_call.include_past,
             past |-> fetch_call.past,
             reports |-> <<FetchReport(fetch_call.upcoming)>>
                           \o (IF fetch_call.include_past
                               THEN <<FetchReport(fetch_call.past)>> ELSE <<>>),
             df |-> df]
    /\ UNCHANGED <<sanitizevars, idvars, dbvars, csv_file, parse_call, trackervars>>

NextFetch == FetchAllClubEvents

SpecFetch == InitFetch /\ [][NextFetch]_vars

(***************************************************************************)
(* Specification of the two programs that run several sources: either the  *)
(* venue tracker is run, or fetch_all_club_events is called                *)
(***************************************************************************)
InitSources ==
    \/ /\ InitTracker
    \/ /\ InitFetch

NextSources == NextTracker \/ FetchAllClubEvents

SpecSources == InitSources /\ [][NextSources]_vars

Range(f) == {f[k] : k \in DOMAIN f}
Count(f, x) == Cardinality({k \in DOMAIN f : f[k] = x})
SameRows(a, b) ==
    /\ Len(a) = Len(b)
    /\ \A r \in Range(a) \cup Range(b) : Count(a, r) = Count(b, r)

\* the request failed or the response could not be parsed
FetchFailed(response) ==
    response.status # "ok" \/ parse_events(response.json).raised
\* the events in the response of a fetch that did not fail
EventsIn(response) == parse_events(response.json).events

\* the tracker went on after every scraper, also one that raised: the run
\* leaves the loop only after the last scraper, ends abnormally only when
\* there are new events to write, and passes all collected events through
\* dedup to the saved set
TrackerGoesOnAfterFailure ==
    /\ pc \in {"filter", "save", "ended", "crashed"} =>
          /\ scraper_index = Len(scrapers) + 1
          /\ Len(printed) = Len(scrapers)
    /\ pc = "crashed" => new_events # <<>>
    /\ Filtered => Ids(all_events) \subseteq seen_ids
    /\ pc = "ended" => Ids(all_events) \subseteq seen_file.ids

\* fetch_all_club_events went on after a failed fetch: a failed fetch adds
\* no row, the fetch of past events is still made and reported, and the
\* rows of every fetch that did not fail are in the DataFrame returned
FetchGoesOnAfterFailure ==
    fetch_call.state = "returned" =>
        LET upcoming == fetch_call.upcoming
            past == fetch_call.past
            from_upcoming == IF FetchFailed(upcoming) THEN <<>> ELSE EventsIn(upcoming)
            from_past == IF FetchFailed(past) THEN <<>> ELSE EventsIn(past)
        IN  /\ FetchFailed(upcoming) => fetch_call.reports[1].line = "error"
            /\ fetch_call.include_past =>
                  /\ Len(fetch_call.reports) = 2
                  /\ FetchFailed(past) <=> fetch_call.reports[2].line = "error"
                  /\ SameRows(fetch_call.df, from_upcoming \o from_past)
            /\ ~fetch_call.include_past => SameRows(fetch_call.df, from_upcoming)

\* C11: a failure in one source does not abort the rest of the run: a
\* scraper that raises, or a fetch of fetch_all_club_events that fails,
\* contributes no event, every remaining source (the fetch of past events
\* included) is still executed, and the events collected from the other
\* sources still reach dedup and the result.
C11_FailureDoesNotAbortRun ==
    /\ TrackerGoesOnAfterFailure
    /\ FetchGoesOnAfterFailure

\* the fetch of upcoming events failed, the fetch of past events was made
\* and its events were returned
C11_Witness ==
    /\ fetch_call.state = "returned"
    /\ FetchFailed(fetch_call.upcoming)
    /\ fetch_call.include_past
    /\ fetch_call.reports[2].line = "found"
    /\ fetch_call.df # <<>>
    /\ SameRows(fetch_call.df, EventsIn(fetch_call.past))

\* a run of the tracker whose scraper raised and which went on to its end
TrackerWentOnAfterFailure ==
    /\ pc = "ended"
    /\ printed = <<[name |-> "H0L0", line |-> "error"]>>
    /\ all_events = <<>>
    /\ seen_file.exists

\* the response {data: {venue: null}}
NullVenue(response) ==
    /\ response.status = "ok"
    /\ response.json.data = "object"
    /\ response.json.venue = "null"

\* C12: for a response with a null venue parse_events returns the empty
\* list and does not raise, and fetch_all_club_events reports no events for
\* that fetch, adds no row for it and returns.
C12_NullVenueGivesNoEvents ==
    /\ (fetch_call.state = "called" /\ NullVenue(fetch_call.upcoming))
          => ENABLED FetchAllClubEvents
    /\ fetch_call.state = "returned" =>
          LET upcoming == fetch_call.upcoming
              past == fetch_call.past
              from_upcoming == IF FetchFailed(upcoming) THEN <<>> ELSE EventsIn(upcoming)
              from_past == IF ~fetch_call.include_past \/ FetchFailed(past)
                           THEN <<>> ELSE EventsIn(past)
          IN  /\ NullVenue(upcoming) =>
                    /\ parse_events(upcoming.json) = [raised |-> FALSE, events |-> <<>>]
                    /\ fetch_call.reports[1] = [line |-> "none_found"]
                    /\ SameRows(fetch_call.df, from_past)
              /\ (fetch_call.include_past /\ NullVenue(past)) =>
                    /\ parse_events(past.json) = [raised |-> FALSE, events |-> <<>>]
                    /\ fetch_call.reports[2] = [line |-> "none_found"]
                    /\ SameRows(fetch_call.df, from_upcoming)

\* a call whose fetch of upcoming events got a null venue and returned the
\* empty DataFrame
C12_Witness ==
    /\ fetch_call.state = "returned"
    /\ NullVenue(fetch_call.upcoming)
    /\ ~fetch_call.include_past
    /\ fetch_call.reports = <<[line |-> "none_found"]>>
    /\ fetch_call.df = <<>>

(***************************************************************************)
(* Specification of parse_events over the event objects of a found venue   *)
(* in which optional keys are missing, null or given                       *)
(***************************************************************************)
\* a key of a JSON object: missing, or given with a value (None for null)
Missing == [given |-> FALSE]
Given(v) == [given |-> TRUE, value |-> v]
EmptyObject == [k \in {} |-> None]
Member(key, option) == IF option.given THEN key :> option.value ELSE EmptyObject

\* missing, null and a text
Scalars(text) == {Missing, Given(None), Given(text)}

ArtistsOptions ==
    {Missing, Given(JsonNullList), Given(JsonList(<<>>)),
     Given(JsonList(<<"DJ A", None, "DJ B">>))}
\* pick: missing, null, without a blurb, with an empty and with a real blurb
PickOptions ==
    {Missing, Given(JsonNullPick), Given(JsonPick(None)), Given(JsonPick("")),
     Given(JsonPick("tip"))}

\* the options of the optional keys of one event object
EventOptions ==
    [artists : ArtistsOptions, pick : PickOptions,
     contentUrl : Scalars("/events/1"), flyerFront : Scalars("https://img/1.jpg"),
     startTime : Scalars("2026-01-10T22:00:00.000"),
     endTime : Scalars("2026-01-11T04:00:00.000"),
     date : Scalars(DateTexts[1])]

OptionalKeys ==
    <<"artists", "pick", "contentUrl", "flyerFront", "startTime", "endTime", "date">>

RECURSIVE Members(_, _)
Members(options, keys) ==
    IF keys = <<>> THEN EmptyObject
    ELSE Member(Head(keys), options[Head(keys)]) @@ Members(options, Tail(keys))

\* the event object with the given options of its optional keys
EventObject(options) ==
    [id |-> "e1", title |-> "Opening"] @@ Members(options, OptionalKeys)

\* an event object that has every key
CompleteEvent ==
    [id |-> "e2", title |-> "Closing", date |-> DateTexts[2],
     startTime |-> "2026-02-20T22:00:00.000", endTime |-> "2026-02-21T04:00:00.000",
     artists |-> JsonList(<<"DJ C">>), pick |-> JsonPick("pick of the week"),
     contentUrl |-> "/events/2", flyerFront |-> "https://img/2.jpg"]

InitParse ==
    /\ \E options \in EventOptions, alone \in BOOLEAN :
          parse_call =
            [state |-> "called", options |-> options,
             response_data |->
               FoundVenue(JsonList(IF alone THEN <<EventObject(options)>>
                                   ELSE <<CompleteEvent, EventObject(options)>>))]
    /\ fetch_call = NoFetchCall
    /\ DbIdle
    /\ FileIdle
    /\ TrackerIdle
    /\ SanitizeIdle
    /\ EventIdIdle

\* parse_events (lines 135-181)
ParseEvents ==
    /\ parse_call.state = "called"
    /\ LET result == parse_events(parse_call.response_data)
       IN  parse_call' =
             [state |-> IF result.raised THEN "raised" ELSE "returned",
              options |-> parse_call.options,
              response_data |-> parse_call.response_data,
              events |-> result.events]
    /\ UNCHANGED <<sanitizevars, idvars, dbvars, csv_file, fetch_call, trackervars>>

NextParse == ParseEvents

SpecParse == InitParse /\ [][NextParse]_vars

\* the placeholder a date that could not be found is replaced by
DatePlaceholder == "TBD"

NoValue(option) == ~option.given \/ option.value = None
NoArtistList(option) == ~option.given \/ option.value.null
NoBlurb(option) == ~option.given \/ option.value.null \/ option.value.blurb = None

\* the record parse_events gave for the event object under test (the last
\* of the list)
ParsedRecord == parse_call.events[Len(parse_call.events)]

\* C13: for a found venue and an event object in which any subset of the
\* optional keys is missing or null, parse_events does not raise and gives
\* one record per event, with performers "" when there is no artist list,
\* description "" when there is no pick or blurb, and date the placeholder
\* when the date is missing.
C13_TotalWithDefaults ==
    /\ parse_call.state # "raised"
    /\ parse_call.state = "returned" =>
          /\ Len(parse_call.events) = Len(parse_call.response_data.venue_data.events.items)
          /\ NoArtistList(parse_call.options.artists) => ParsedRecord.performers = ""
          /\ NoBlurb(parse_call.options.pick) => ParsedRecord.description = ""
          /\ NoValue(parse_call.options.date) => ParsedRecord.date = DatePlaceholder

\* what parse_events does: it does not raise, gives one record per event,
\* performers and description default to "", url to "", and a missing or
\* null date, start time or end time is None in the record
ParseEventsTotalDateNone ==
    /\ parse_call.state # "raised"
    /\ parse_call.state = "returned" =>
          /\ Len(parse_call.events) = Len(parse_call.response_data.venue_data.events.items)
          /\ NoArtistList(parse_call.options.artists) => ParsedRecord.performers = ""
          /\ NoBlurb(parse_call.options.pick) => ParsedRecord.description = ""
          /\ NoValue(parse_call.options.contentUrl) => ParsedRecord.url = ""
          /\ NoValue(parse_call.options.date) => ParsedRecord.date = None
          /\ NoValue(parse_call.options.startTime) => ParsedRecord.start_time = None
          /\ NoValue(parse_call.options.endTime) => ParsedRecord.end_time = None
          /\ ParsedRecord.event_id = "e1"

\* the first n collected events without those whose identity was loaded or
\* belongs to an event collected before them, in collection order
RECURSIVE FirstNew(_)
FirstNew(n) ==
    IF n = 0 THEN <<>>
    ELSE LET id == event_id(all_events[n])
         IN  FirstNew(n - 1)
               \o (IF id \notin loaded_ids
                      /\ \A j \in 1..(n - 1) : event_id(all_events[j]) # id
                   THEN <<all_events[n]>> ELSE <<>>)

\* C14: within a run the new events hold each identity at most once: of
\* the collected events with the same identity only the first in collection
\* order is reported as new, the reported events are in collection order,
\* and they are what is written to the new-events file.
C14_EachIdentityReportedOnce ==
    /\ \A i, j \in 1..Len(new_events) :
          i # j => event_id(new_events[i]) # event_id(new_events[j])
    /\ pc \in {"filter", "save", "ended", "crashed"} =>
          new_events = FirstNew(event_index - 1)
    /\ (pc \in {"save", "ended"} /\ new_events # <<>>) =>
          output_file[Len(output_file)] = WrittenBlock(new_events, Len(new_events))

\* a run that collected two different events with the same identity and
\* reported the first
C14_Witness ==
    /\ pc = "ended"
    /\ Len(all_events) = 2
    /\ all_events[1] # all_events[2]
    /\ event_id(all_events[1]) = event_id(all_events[2])
    /\ new_events = <<all_events[1]>>
    /\ output_file # <<>>

====
